---- MODULE Spec2Model ----
(***************************************************************************)
(* Lifecycle of the grid trading daemon (run_grid_trading_daemon.py):      *)
(* main(), DaemonGridRunner.run(), print_statistics(), cleanup() and       *)
(* handle_signal(), with the external collaborators (exchange adapter,     *)
(* coordinator, reserve manager/monitor) as calls that return or raise.    *)
(*                                                                         *)
(* Strings the code inspects character by character (symbol, exchange      *)
(* name) are sequences of one-character strings, so that upper(), lower()  *)
(* and the `in` substring test are computed as Python computes them.       *)
(***************************************************************************)
EXTENDS Integers, Sequences, FiniteSets, TLC

VARIABLES
    pc,               \* position of the main control flow (main() / run() / cleanup())
    exc,              \* exception in flight in run(): "none", "Exception", "SystemExit", "CancelledError"
    exitStatus,       \* process exit status, NotExited until the process has ended
    handlers,         \* the signals signal.signal(...) has bound to handle_signal
    signals,          \* number of shutdown signals delivered so far
    shutdown_event,   \* self._shutdown_event.is_set()
    running,          \* self._running
    config_data,      \* the raw document load_config() returned, or None
    grid_config,      \* the GridConfig create_grid_config() returned, or None
    exchange_adapter, \* self.exchange_adapter, or None
    reserve_manager,  \* local reserve_manager of run(), or None
    reserve_monitor,  \* self.reserve_monitor (and the local of run()), or None
    coordinator,      \* self.coordinator, or None
    log,              \* collaborator calls made so far, in order, with their outcome
    statsPc,          \* the statistics task: "none", "created", "sleeping", "done", "cancelled"
    statsCancel,      \* stats_task.cancel() has requested cancellation
    statsCycles,      \* interval timers that fired in print_statistics
    statsReads,       \* calls of coordinator.get_statistics()
    statsLast,        \* outcome of the latest cycle: "none", "skip", "report", "error"
    environ,          \* os.environ: the {EXCHANGE}_API_KEY, _API_SECRET, _WALLET_ADDRESS variables
    exchange_file,    \* config/exchanges/{exchange}_config.yaml
    main_cancel,      \* asyncio.run's SIGINT handler has requested cancellation of the main task
    waiter            \* the future of _shutdown_event.wait(): "none", "pending" (in _waiters), "done", "cancelled"

vars == <<pc, exc, exitStatus, handlers, signals, shutdown_event, running,
          config_data, grid_config, exchange_adapter, reserve_manager,
          reserve_monitor, coordinator, log, statsPc, statsCancel,
          statsCycles, statsReads, statsLast, environ, exchange_file,
          main_cancel, waiter>>

mainVars == <<pc, exc, exitStatus, handlers, config_data, grid_config,
              exchange_adapter, reserve_manager, reserve_monitor, log>>

statsVars == <<statsPc, statsCancel, statsCycles, statsReads, statsLast>>

\* what create_exchange_adapter reads of the process environment and the
\* per-exchange configuration file; no step of the daemon writes them
credVars == <<environ, exchange_file>>

-----------------------------------------------------------------------------
(* Bounds of the model *)

\* shutdown signals (SIGTERM / SIGINT) delivered in one run
MaxSignals == 2

\* interval timers of the statistics task that fire in one run
MaxCycles == 3

\* exitStatus while the process is alive
NotExited == 0 - 1

\* Python's None
None == [none |-> TRUE]

-----------------------------------------------------------------------------
(* Strings *)

Lowers == <<"a","b","c","d","e","f","g","h","i","j","k","l","m",
            "n","o","p","q","r","s","t","u","v","w","x","y","z">>

Uppers == <<"A","B","C","D","E","F","G","H","I","J","K","L","M",
            "N","O","P","Q","R","S","T","U","V","W","X","Y","Z">>

UpperChar(c) ==
    IF \E i \in DOMAIN Lowers : Lowers[i] = c
    THEN Uppers[CHOOSE i \in DOMAIN Lowers : Lowers[i] = c]
    ELSE c

LowerChar(c) ==
    IF \E i \in DOMAIN Uppers : Uppers[i] = c
    THEN Lowers[CHOOSE i \in DOMAIN Uppers : Uppers[i] = c]
    ELSE c

\* str.upper()
Upper(s) == [i \in DOMAIN s |-> UpperChar(s[i])]

\* str.lower()
Lower(s) == [i \in DOMAIN s |-> LowerChar(s[i])]

\* Python's `sub in s` on strings
Contains(sub, s) ==
    \E i \in 0..(Len(s) - Len(sub)) : SubSeq(s, i + 1, i + Len(sub)) = sub

HYPERLIQUID == <<"h","y","p","e","r","l","i","q","u","i","d">>
BACKPACK == <<"b","a","c","k","p","a","c","k">>
LIGHTER == <<"l","i","g","h","t","e","r">>

TAG_USDC == <<":","U","S","D","C">>
TAG_PERP == <<":","P","E","R","P">>
TAG_SPOT == <<":","S","P","O","T">>
U_PERP == <<"_","P","E","R","P">>
W_PERP == <<"P","E","R","P">>
U_SPOT == <<"_","S","P","O","T">>
W_SPOT == <<"S","P","O","T">>

-----------------------------------------------------------------------------
(* Inputs: the configuration documents a run may be given *)

Exchanges ==
    { HYPERLIQUID,
      <<"B","a","c","k","p","a","c","k">>,
      LIGHTER,
      <<"b","i","n","a","n","c","e">> }

Symbols ==
    { <<"B","T","C",":","U","S","D","C">>,
      <<"B","T","C",":","S","P","O","T">>,
      <<"B","T","C">>,
      <<"S","O","L","_","P","E","R","P">>,
      <<"s","o","l","_","s","p","o","t">> }

\* the values of the GridType enumeration
GridTypeValues ==
    {"long", "short", "martingale_long", "martingale_short",
     "follow_long", "follow_short"}

GridTypeTags == GridTypeValues \cup {"diagonal"}

SpotReserveBlocks == {"absent", "disabled", "enabled"}

\* every document: has_lower_price / has_upper_price say whether
\* price_range.lower_price / price_range.upper_price are present,
\* has_follow_count whether follow_grid_count is
AllDocuments ==
    [exchange : Exchanges, symbol : Symbols, grid_type : GridTypeTags,
     has_lower_price : BOOLEAN, has_upper_price : BOOLEAN,
     has_follow_count : BOOLEAN, spot_reserve : SpotReserveBlocks]

\* the documents given to whole runs: a price range is complete or absent
Documents ==
    {doc \in AllDocuments : doc.has_lower_price = doc.has_upper_price}

-----------------------------------------------------------------------------
(* Pure functions of the runner *)

FollowTypes == {"follow_long", "follow_short"}

ShortTypes == {"short", "martingale_short", "follow_short"}

\* mutant of create_grid_config: upper_price is read with a default, so a
\* price range without it is accepted
create_grid_config_lenient(doc) ==
    IF doc.grid_type \notin GridTypeValues
    THEN [ok |-> FALSE, error |-> "ValueError"]
    ELSE IF doc.grid_type \in FollowTypes
    THEN IF doc.has_follow_count
         THEN [ok |-> TRUE, exchange |-> doc.exchange, symbol |-> doc.symbol,
               grid_type |-> doc.grid_type,
               fields |-> {"follow_grid_count", "follow_timeout",
                           "follow_distance", "price_offset_grids"},
               spot_reserve |-> doc.spot_reserve]
         ELSE [ok |-> FALSE, error |-> "KeyError"]
    ELSE IF doc.has_lower_price
         THEN [ok |-> TRUE, exchange |-> doc.exchange, symbol |-> doc.symbol,
               grid_type |-> doc.grid_type,
               fields |-> {"lower_price"}
                          \cup (IF doc.has_upper_price
                                THEN {"upper_price"} ELSE {}),
               spot_reserve |-> doc.spot_reserve]
         ELSE [ok |-> FALSE, error |-> "KeyError"]

\* create_grid_config: GridType(tag) raises ValueError on an unknown tag,
\* a missing required key raises KeyError, otherwise the parameters.
create_grid_config(doc) ==
    IF doc.grid_type \notin GridTypeValues
    THEN [ok |-> FALSE, error |-> "ValueError"]
    ELSE IF doc.grid_type \in FollowTypes
    THEN IF doc.has_follow_count
         THEN [ok |-> TRUE, exchange |-> doc.exchange, symbol |-> doc.symbol,
               grid_type |-> doc.grid_type,
               fields |-> {"follow_grid_count", "follow_timeout",
                           "follow_distance", "price_offset_grids"},
               spot_reserve |-> doc.spot_reserve]
         ELSE [ok |-> FALSE, error |-> "KeyError"]
    ELSE IF doc.has_lower_price /\ doc.has_upper_price
         THEN [ok |-> TRUE, exchange |-> doc.exchange, symbol |-> doc.symbol,
               grid_type |-> doc.grid_type,
               fields |-> {"lower_price", "upper_price"},
               spot_reserve |-> doc.spot_reserve]
         ELSE [ok |-> FALSE, error |-> "KeyError"]

\* mutant of detect_market_type: an untagged hyperliquid symbol falls
\* through to PERPETUAL
detect_market_type_untagged_perp(symbol, exchange_name) ==
    LET symbol_upper == Upper(symbol)
        exchange_lower == Lower(exchange_name)
    IN  IF exchange_lower = HYPERLIQUID
        THEN IF Contains(TAG_SPOT, symbol_upper) THEN "SPOT" ELSE "PERPETUAL"
        ELSE IF exchange_lower = BACKPACK
        THEN IF Contains(U_PERP, symbol_upper) \/ Contains(W_PERP, symbol_upper)
             THEN "PERPETUAL"
             ELSE IF Contains(U_SPOT, symbol_upper) \/ Contains(W_SPOT, symbol_upper)
             THEN "SPOT"
             ELSE "PERPETUAL"
        ELSE "PERPETUAL"

detect_market_type(symbol, exchange_name) ==
    LET symbol_upper == Upper(symbol)
        exchange_lower == Lower(exchange_name)
    IN  IF exchange_lower = HYPERLIQUID
        THEN IF \/ Contains(TAG_USDC, symbol_upper)
                \/ Contains(TAG_PERP, symbol_upper)
                \/ Contains(TAG_SPOT, symbol_upper)
             THEN IF Contains(TAG_SPOT, symbol_upper) THEN "SPOT" ELSE "PERPETUAL"
             ELSE "SPOT"
        ELSE IF exchange_lower = BACKPACK
        THEN IF Contains(U_PERP, symbol_upper) \/ Contains(W_PERP, symbol_upper)
             THEN "PERPETUAL"
             ELSE IF Contains(U_SPOT, symbol_upper) \/ Contains(W_SPOT, symbol_upper)
             THEN "SPOT"
             ELSE "PERPETUAL"
        ELSE IF exchange_lower = LIGHTER
        THEN "PERPETUAL"
        ELSE "PERPETUAL"

\* the is_spot flag run() computes for its short-on-spot validation
is_spot(symbol, exchange) ==
    LET exchange_name == Lower(exchange)
    IN  IF exchange_name = HYPERLIQUID
        THEN Contains(TAG_SPOT, Upper(symbol))
        ELSE IF exchange_name = BACKPACK
        THEN Contains(U_SPOT, Upper(symbol)) \/ Contains(W_SPOT, Upper(symbol))
        ELSE FALSE

\* the condition under which run() calls sys.exit(1) before connecting
SpotShortRejected(cfg) ==
    is_spot(cfg.symbol, cfg.exchange) /\ cfg.grid_type \in ShortTypes

\* mutant of ReserveWanted: the enabled flag of the block is not looked at
ReserveWantedOnSpot(adapter, cfg) == adapter.exchange_type = "SPOT"

\* the condition under which run() builds the reserve manager and monitor
ReserveWanted(adapter, cfg) ==
    adapter.exchange_type = "SPOT" /\ cfg.spot_reserve = "enabled"

-----------------------------------------------------------------------------
(* Credentials and the connection configuration *)

\* Python's None where the other values are strings
NONE == "<None>"

\* truth value of a string or None
Truthy(v) == v # NONE /\ v # ""

\* Python's `a or b`
PyOr(a, b) == IF Truthy(a) THEN a ELSE b

\* dict.get(key, default)
DictGet(d, key, default) == IF key \in DOMAIN d THEN d[key] ELSE default

EnvFields == {"API_KEY", "API_SECRET", "WALLET_ADDRESS"}

\* no credential variable is set
NoEnviron == [f \in EnvFields |-> NONE]

\* the keys the code reads in the file's authentication block
AuthKeys ==
    {"api_key", "private_key", "api_secret", "wallet_address",
     "api_key_private_key"}

\* the per-exchange file does not exist
NoFile == [exists |-> FALSE, readable |-> FALSE, auth |-> [k \in {} |-> ""]]

\* lines 236-267 of create_exchange_adapter: the three values after the
\* environment lookup and the fallback to the file
resolve_credentials(exchange_name, env, file) ==
    LET api_key == env["API_KEY"]
        api_secret == env["API_SECRET"]
        wallet_address == env["WALLET_ADDRESS"]
        auth == file.auth
    IN  IF (~Truthy(api_key) \/ ~Truthy(api_secret))
           /\ file.exists /\ file.readable
        THEN IF exchange_name = HYPERLIQUID
             THEN [api_key |-> PyOr(api_key, DictGet(auth, "private_key", "")),
                   api_secret |->
                       PyOr(api_secret, DictGet(auth, "private_key", "")),
                   wallet_address |->
                       PyOr(wallet_address, DictGet(auth, "wallet_address", ""))]
             ELSE IF exchange_name = LIGHTER
             THEN [api_key |->
                       PyOr(api_key, DictGet(auth, "api_key_private_key", "")),
                   api_secret |->
                       PyOr(api_secret, DictGet(auth, "api_key_private_key", "")),
                   wallet_address |-> wallet_address]
             ELSE [api_key |-> PyOr(api_key, DictGet(auth, "api_key", "")),
                   api_secret |->
                       PyOr(PyOr(api_secret, DictGet(auth, "private_key", "")),
                            DictGet(auth, "api_secret", "")),
                   wallet_address |->
                       PyOr(wallet_address, DictGet(auth, "wallet_address", ""))]
        ELSE [api_key |-> api_key, api_secret |-> api_secret,
              wallet_address |-> wallet_address]

\* lines 269-322: the ExchangeConfig; the lighter branches pass empty
\* credentials and no wallet address
exchange_config(exchange_name, market_type, creds) ==
    IF exchange_name = LIGHTER
    THEN [exchange_id |-> LIGHTER, exchange_type |-> market_type,
          api_key |-> "", api_secret |-> "", wallet_address |-> NONE]
    ELSE [exchange_id |-> exchange_name, exchange_type |-> market_type,
          api_key |-> PyOr(creds.api_key, ""),
          api_secret |-> PyOr(creds.api_secret, ""),
          wallet_address |-> creds.wallet_address]

\* create_exchange_adapter up to the factory call: the configuration the
\* adapter is created with
create_exchange_config(doc, env, file) ==
    LET exchange_name == Lower(doc.exchange)
        market_type == detect_market_type(doc.symbol, exchange_name)
    IN  exchange_config(exchange_name, market_type,
                        resolve_credentials(exchange_name, env, file))

-----------------------------------------------------------------------------
(* The call log *)

Call(op, res) == [op |-> op, res |-> res]

Logged(op) == \E i \in DOMAIN log : log[i].op = op

Count(op) == Cardinality({i \in DOMAIN log : log[i].op = op})

Raised(op) == \E i \in DOMAIN log : log[i].op = op /\ log[i].res = "raise"

Outcomes == {"ok", "raise"}

-----------------------------------------------------------------------------
(* The process before run() *)

Init ==
    /\ pc = "main"
    /\ exc = "none"
    /\ exitStatus = NotExited
    /\ handlers = {}
    /\ signals = 0
    /\ shutdown_event = FALSE
    /\ running = FALSE
    /\ config_data = None
    /\ grid_config = None
    /\ exchange_adapter = None
    /\ reserve_manager = None
    /\ reserve_monitor = None
    /\ coordinator = None
    /\ log = <<>>
    /\ statsPc = "none"
    /\ statsCancel = FALSE
    /\ statsCycles = 0
    /\ statsReads = 0
    /\ statsLast = "none"
    /\ environ = NoEnviron
    /\ exchange_file = NoFile
    /\ main_cancel = FALSE
    /\ waiter = "none"

\* what argparse makes of the command line: the arguments are accepted,
\* --version or --help prints and exits with status 0, a missing config
\* argument or a non-integer --stats-interval is a usage error, status 2
ArgvOutcomes == {"accepted", "version_or_help", "usage_error"}

\* args = parse_arguments(), the first statement of main()
parse_arguments ==
    /\ pc = "main"
    /\ \E r \in ArgvOutcomes :
          IF r = "accepted"
          THEN /\ pc' = "file_test"
               /\ exitStatus' = exitStatus
          ELSE /\ pc' = "exited"
               /\ exitStatus' = IF r = "version_or_help" THEN 0 ELSE 2
    /\ UNCHANGED credVars
    /\ UNCHANGED waiter
    /\ UNCHANGED main_cancel
    /\ UNCHANGED <<exc, handlers, signals, shutdown_event, running, config_data,
                   grid_config, exchange_adapter, reserve_manager,
                   reserve_monitor, coordinator, log, statsVars>>

\* exitStatus of a process that SIGTERM ended (the default action)
KilledBySigterm == 128 + 15

\* the signals the daemon is stopped with
Signals == {"SIGTERM", "SIGINT"}

\* a signal delivered while main() runs, before handle_signal is registered
\* for it. SIGINT is handled by the handler asyncio.run installed: it
\* requests the cancellation of the main task, which is delivered where the
\* task first suspends; a second SIGINT makes that handler raise
\* KeyboardInterrupt, which ends the process through
\* `except KeyboardInterrupt`. SIGTERM has its default action and ends the
\* process. Between lines 621 and 622 only SIGINT is still unregistered.
EarlySignal ==
    /\ pc \in {"main", "file_test", "register_sigint"}
    /\ \E sig \in Signals \ handlers :
          IF sig = "SIGINT" /\ ~main_cancel
          THEN /\ main_cancel' = TRUE
               /\ UNCHANGED <<pc, exitStatus>>
          ELSE IF sig = "SIGINT"
          THEN /\ main_cancel' = main_cancel
               /\ pc' = "exited"
               /\ exitStatus' = 0
          ELSE /\ main_cancel' = main_cancel
               /\ pc' = "exited"
               /\ exitStatus' = KilledBySigterm
    /\ UNCHANGED credVars
    /\ UNCHANGED waiter
    /\ UNCHANGED <<exc, handlers, signals, shutdown_event, running, config_data,
                   grid_config, exchange_adapter, reserve_manager,
                   reserve_monitor, coordinator, log, statsVars>>

\* main() after parse_arguments(), lines 612-621: a missing configuration
\* file ends the process with sys.exit(1); otherwise the runner is
\* constructed and handle_signal is registered for SIGTERM.
Main ==
    /\ pc = "file_test"
    /\ \E exists \in BOOLEAN :
          IF exists
          THEN /\ handlers' = handlers \cup {"SIGTERM"}
               /\ pc' = "register_sigint"
               /\ exitStatus' = exitStatus
          ELSE /\ handlers' = handlers
               /\ pc' = "exited"
               /\ exitStatus' = 1
    /\ UNCHANGED credVars
    /\ UNCHANGED waiter
    /\ UNCHANGED main_cancel
    /\ UNCHANGED <<exc, signals, shutdown_event, running, config_data,
                   grid_config, exchange_adapter, reserve_manager,
                   reserve_monitor, coordinator, log, statsVars>>

\* main(), lines 622-625: handle_signal is registered for SIGINT, replacing
\* the handler of asyncio.run, and run() is entered
MainRegisterSigint ==
    /\ pc = "register_sigint"
    /\ handlers' = handlers \cup {"SIGINT"}
    /\ pc' = "setup_logging"
    /\ UNCHANGED credVars
    /\ UNCHANGED waiter
    /\ UNCHANGED main_cancel
    /\ UNCHANGED <<exc, exitStatus, signals, shutdown_event, running,
                   config_data, grid_config, exchange_adapter, reserve_manager,
                   reserve_monitor, coordinator, log, statsVars>>

\* the pcs of cleanup()
CleanupPcs ==
    {"cleanup", "cleanup_on_exit", "cleanup_stop", "cleanup_monitor",
     "cleanup_disconnect", "cleanup_end"}

\* handle_signal, run for a signal it is registered for: logs and sets the
\* shutdown event. Event.set() acts only on an event that is not yet set,
\* and resolves the futures of _waiters that are not done: a future that the
\* cancellation of the main task has cancelled stays cancelled
handle_signal ==
    /\ \E sig \in Signals : sig \in handlers
    /\ pc # "exited"
    /\ signals < MaxSignals
    /\ signals' = signals + 1
    /\ shutdown_event' = TRUE
    /\ waiter' = IF ~shutdown_event /\ waiter = "pending" THEN "done" ELSE waiter
    /\ UNCHANGED credVars
    /\ UNCHANGED main_cancel
    /\ UNCHANGED <<mainVars, running, coordinator, statsVars>>

-----------------------------------------------------------------------------
(* run(): the startup sequence *)

\* a constructed collaborator
Obj == [none |-> FALSE]

\* an exception raised inside run()'s try block: `except Exception` logs and
\* re-raises, `finally` runs cleanup()
RaiseException ==
    /\ exc' = "Exception"
    /\ pc' = "cleanup"

\* sys.exit(1) inside run()'s try block: SystemExit is no Exception, only the
\* `finally` clause sees it
SysExit ==
    /\ exc' = "SystemExit"
    /\ pc' = "cleanup"

\* how an awaited collaborator call ends: it returns ("ok") or raises
\* ("raise"), with or without suspending; when asyncio.run's SIGINT handler
\* has requested the cancellation of the main task, a call that suspends
\* ends with CancelledError ("cancelled")
AwaitOutcomes ==
    IF main_cancel THEN {"ok", "raise", "cancelled"} ELSE {"ok", "raise"}

\* the cancellation request is consumed by the await that delivers it
Delivered(r) == main_cancel' = (main_cancel /\ r # "cancelled")

\* an awaited call inside run()'s try block did not return: an Exception is
\* logged and re-raised by `except Exception`, CancelledError passes it;
\* `finally` runs cleanup() for both
Raises(r) ==
    /\ exc' = IF r = "cancelled" THEN "CancelledError" ELSE "Exception"
    /\ pc' = "cleanup"

\* run() before its try block: setup_optimized_logging(...); an exception
\* here leaves run() without passing the except and finally clauses, so
\* cleanup() is not called
SetupLogging ==
    /\ pc = "setup_logging"
    /\ \E r \in Outcomes :
          IF r = "ok"
          THEN /\ pc' = "load_config"
               /\ exc' = exc
          ELSE /\ pc' = "run_left"
               /\ exc' = "Exception"
    /\ UNCHANGED credVars
    /\ UNCHANGED waiter
    /\ UNCHANGED main_cancel
    /\ UNCHANGED <<exitStatus, handlers, signals, shutdown_event, running,
                   config_data, grid_config, exchange_adapter, reserve_manager,
                   reserve_monitor, coordinator, log, statsVars>>

\* step 1: load_config()
LoadConfig ==
    /\ pc = "load_config"
    /\ \E r \in Outcomes :
          IF r = "ok"
          THEN /\ \E doc \in Documents : config_data' = doc
               /\ pc' = "create_grid_config"
               /\ exc' = exc
          ELSE /\ config_data' = config_data
               /\ RaiseException
    /\ UNCHANGED credVars
    /\ UNCHANGED waiter
    /\ UNCHANGED main_cancel
    /\ UNCHANGED <<exitStatus, handlers, signals, shutdown_event, running,
                   grid_config, exchange_adapter, reserve_manager,
                   reserve_monitor, coordinator, log, statsVars>>

\* step 1: create_grid_config(config_data)
CreateGridConfig ==
    /\ pc = "create_grid_config"
    /\ LET cfg == create_grid_config(config_data)
       IN  IF cfg.ok
           THEN /\ grid_config' = cfg
                /\ pc' = "validate"
                /\ exc' = exc
           ELSE /\ grid_config' = grid_config
                /\ RaiseException
    /\ UNCHANGED credVars
    /\ UNCHANGED waiter
    /\ UNCHANGED main_cancel
    /\ UNCHANGED <<exitStatus, handlers, signals, shutdown_event, running,
                   config_data, exchange_adapter, reserve_manager,
                   reserve_monitor, coordinator, log, statsVars>>

\* the short-on-spot validation
SpotShortCheck ==
    /\ pc = "validate"
    /\ IF SpotShortRejected(grid_config)
       THEN SysExit
       ELSE /\ pc' = "create_adapter"
            /\ exc' = exc
    /\ UNCHANGED credVars
    /\ UNCHANGED waiter
    /\ UNCHANGED main_cancel
    /\ UNCHANGED <<exitStatus, handlers, signals, shutdown_event, running,
                   config_data, grid_config, exchange_adapter, reserve_manager,
                   reserve_monitor, coordinator, log, statsVars>>

\* step 2, create_exchange_adapter: ExchangeFactory().create_adapter(...)
CreateAdapter ==
    /\ pc = "create_adapter"
    /\ \E r \in Outcomes :
          /\ log' = Append(log, Call("create_adapter", r))
          /\ IF r = "ok"
             THEN /\ pc' = "connect"
                  /\ exc' = exc
             ELSE RaiseException
    /\ UNCHANGED credVars
    /\ UNCHANGED waiter
    /\ UNCHANGED main_cancel
    /\ UNCHANGED <<exitStatus, handlers, signals, shutdown_event, running,
                   config_data, grid_config, exchange_adapter, reserve_manager,
                   reserve_monitor, coordinator, statsVars>>

\* mutant of Connect: a failed connect() is swallowed and the adapter is
\* returned all the same
ConnectSwallowsFailure ==
    /\ pc = "connect"
    /\ \E r \in AwaitOutcomes :
          /\ log' = Append(log, Call("connect", r))
          /\ Delivered(r)
          /\ exchange_adapter' =
                create_exchange_config(config_data, environ, exchange_file)
          /\ pc' = "components"
          /\ exc' = exc
    /\ UNCHANGED credVars
    /\ UNCHANGED waiter
    /\ UNCHANGED <<exitStatus, handlers, signals, shutdown_event, running,
                   config_data, grid_config, reserve_manager,
                   reserve_monitor, coordinator, statsVars>>

\* step 2, create_exchange_adapter: await adapter.connect(); the adapter is
\* assigned to self.exchange_adapter only when connect() returned. connect()
\* is the first await of the main task that can suspend (load_config()
\* awaits nothing)
Connect ==
    /\ pc = "connect"
    /\ \E r \in AwaitOutcomes :
          /\ log' = Append(log, Call("connect", r))
          /\ Delivered(r)
          /\ IF r = "ok"
             THEN /\ exchange_adapter' =
                        create_exchange_config(config_data, environ,
                                               exchange_file)
                  /\ pc' = "components"
                  /\ exc' = exc
             ELSE /\ exchange_adapter' = exchange_adapter
                  /\ Raises(r)
    /\ UNCHANGED credVars
    /\ UNCHANGED waiter
    /\ UNCHANGED <<exitStatus, handlers, signals, shutdown_event, running,
                   config_data, grid_config, reserve_manager,
                   reserve_monitor, coordinator, statsVars>>

\* step 3: strategy, engine, grid state and position tracker
BuildComponents ==
    /\ pc = "components"
    /\ \E r \in Outcomes :
          /\ log' = Append(log, Call("components", r))
          /\ IF r = "ok"
             THEN /\ pc' = "reserve"
                  /\ exc' = exc
             ELSE RaiseException
    /\ UNCHANGED credVars
    /\ UNCHANGED waiter
    /\ UNCHANGED main_cancel
    /\ UNCHANGED <<exitStatus, handlers, signals, shutdown_event, running,
                   config_data, grid_config, exchange_adapter, reserve_manager,
                   reserve_monitor, coordinator, statsVars>>

\* step 3: on a spot market with an enabled spot_reserve block,
\* SpotReserveManager(...) and then ReserveMonitor(...); the manager is
\* bound before the monitor's constructor runs, self.reserve_monitor is
\* assigned last
BuildReserve ==
    /\ pc = "reserve"
    /\ IF ReserveWanted(exchange_adapter, grid_config)
       THEN \E r \in Outcomes :
               IF r = "ok"
               THEN \E q \in Outcomes :
                       /\ log' = log \o <<Call("SpotReserveManager", "ok"),
                                          Call("ReserveMonitor", q)>>
                       /\ reserve_manager' = Obj
                       /\ IF q = "ok"
                          THEN /\ reserve_monitor' = Obj
                               /\ pc' = "coordinator"
                               /\ exc' = exc
                          ELSE /\ reserve_monitor' = reserve_monitor
                               /\ RaiseException
               ELSE /\ log' = Append(log, Call("SpotReserveManager", r))
                    /\ UNCHANGED <<reserve_manager, reserve_monitor>>
                    /\ RaiseException
       ELSE /\ pc' = "coordinator"
            /\ UNCHANGED <<exc, log, reserve_manager, reserve_monitor>>
    /\ UNCHANGED credVars
    /\ UNCHANGED waiter
    /\ UNCHANGED main_cancel
    /\ UNCHANGED <<exitStatus, handlers, signals, shutdown_event, running,
                   config_data, grid_config, exchange_adapter,
                   coordinator, statsVars>>

\* step 4: GridCoordinator(...)
BuildCoordinator ==
    /\ pc = "coordinator"
    /\ \E r \in Outcomes :
          /\ log' = Append(log, Call("GridCoordinator", r))
          /\ IF r = "ok"
             THEN /\ coordinator' = Obj
                  /\ pc' = "reserve_check"
                  /\ exc' = exc
             ELSE /\ coordinator' = coordinator
                  /\ RaiseException
    /\ UNCHANGED credVars
    /\ UNCHANGED waiter
    /\ UNCHANGED main_cancel
    /\ UNCHANGED <<exitStatus, handlers, signals, shutdown_event, running,
                   config_data, grid_config, exchange_adapter, reserve_manager,
                   reserve_monitor, statsVars>>

\* the pre-start check: await check_spot_reserve_on_startup(...) returns
\* True ("ok"), returns False ("fail") or does not return
ReserveCheck ==
    /\ pc = "reserve_check"
    /\ IF reserve_manager # None
       THEN \E r \in AwaitOutcomes \cup {"fail"} :
               /\ log' = Append(log, Call("check_spot_reserve", r))
               /\ Delivered(r)
               /\ IF r = "ok"
                  THEN /\ pc' = "coordinator_start"
                       /\ exc' = exc
                  ELSE IF r = "fail"
                  THEN /\ pc' = "reserve_disconnect"
                       /\ exc' = exc
                  ELSE Raises(r)
       ELSE /\ pc' = "coordinator_start"
            /\ UNCHANGED <<exc, log, main_cancel>>
    /\ UNCHANGED credVars
    /\ UNCHANGED waiter
    /\ UNCHANGED <<exitStatus, handlers, signals, shutdown_event, running,
                   config_data, grid_config, exchange_adapter, reserve_manager,
                   reserve_monitor, coordinator, statsVars>>

\* the failed pre-start check: await self.exchange_adapter.disconnect(), then
\* sys.exit(1)
ReserveCheckDisconnect ==
    /\ pc = "reserve_disconnect"
    /\ \E r \in AwaitOutcomes :
          /\ log' = Append(log, Call("disconnect", r))
          /\ Delivered(r)
          /\ IF r = "ok" THEN SysExit ELSE Raises(r)
    /\ UNCHANGED credVars
    /\ UNCHANGED waiter
    /\ UNCHANGED <<exitStatus, handlers, signals, shutdown_event, running,
                   config_data, grid_config, exchange_adapter, reserve_manager,
                   reserve_monitor, coordinator, statsVars>>

\* step 5: await self.coordinator.start()
CoordinatorStart ==
    /\ pc = "coordinator_start"
    /\ \E r \in AwaitOutcomes :
          /\ log' = Append(log, Call("coordinator.start", r))
          /\ Delivered(r)
          /\ IF r = "ok"
             THEN /\ pc' = "monitor_start"
                  /\ exc' = exc
             ELSE Raises(r)
    /\ UNCHANGED credVars
    /\ UNCHANGED waiter
    /\ UNCHANGED <<exitStatus, handlers, signals, shutdown_event, running,
                   config_data, grid_config, exchange_adapter, reserve_manager,
                   reserve_monitor, coordinator, statsVars>>

\* mutant of MonitorStart: a failure of start() is swallowed and startup
\* goes on
MonitorStartSwallowsFailure ==
    /\ pc = "monitor_start"
    /\ IF reserve_monitor # None
       THEN \E r \in AwaitOutcomes :
               /\ log' = Append(log, Call("reserve_monitor.start", r))
               /\ Delivered(r)
               /\ pc' = "monitoring"
               /\ exc' = exc
       ELSE /\ pc' = "monitoring"
            /\ UNCHANGED <<exc, log, main_cancel>>
    /\ UNCHANGED credVars
    /\ UNCHANGED waiter
    /\ UNCHANGED <<exitStatus, handlers, signals, shutdown_event, running,
                   config_data, grid_config, exchange_adapter, reserve_manager,
                   reserve_monitor, coordinator, statsVars>>

\* step 5: await reserve_monitor.start(), when a monitor exists
MonitorStart ==
    /\ pc = "monitor_start"
    /\ IF reserve_monitor # None
       THEN \E r \in AwaitOutcomes :
               /\ log' = Append(log, Call("reserve_monitor.start", r))
               /\ Delivered(r)
               /\ IF r = "ok"
                  THEN /\ pc' = "monitoring"
                       /\ exc' = exc
                  ELSE Raises(r)
       ELSE /\ pc' = "monitoring"
            /\ UNCHANGED <<exc, log, main_cancel>>
    /\ UNCHANGED credVars
    /\ UNCHANGED waiter
    /\ UNCHANGED <<exitStatus, handlers, signals, shutdown_event, running,
                   config_data, grid_config, exchange_adapter, reserve_manager,
                   reserve_monitor, coordinator, statsVars>>

\* step 6: self._running = True, create_task(print_statistics()), then
\* await self._shutdown_event.wait() up to its test of the flag: wait()
\* returns at once when the event is already set
StartMonitoring ==
    /\ pc = "monitoring"
    /\ running' = TRUE
    /\ statsPc' = "created"
    /\ pc' = IF shutdown_event THEN "cancel_stats" ELSE "wait_enter"
    /\ UNCHANGED credVars
    /\ UNCHANGED waiter
    /\ UNCHANGED main_cancel
    /\ UNCHANGED <<exc, exitStatus, handlers, signals, shutdown_event,
                   config_data, grid_config, exchange_adapter, reserve_manager,
                   reserve_monitor, coordinator, log, statsCancel,
                   statsCycles, statsReads, statsLast>>

\* Event.wait() after it found the flag unset: it creates a future and
\* appends it to _waiters. handle_signal may have run since the test of the
\* flag; the future is pending all the same
EventWait ==
    /\ pc = "wait_enter"
    /\ waiter' = "pending"
    /\ pc' = "wait_await"
    /\ UNCHANGED credVars
    /\ UNCHANGED main_cancel
    /\ UNCHANGED <<exc, exitStatus, handlers, signals, shutdown_event, running,
                   config_data, grid_config, exchange_adapter, reserve_manager,
                   reserve_monitor, coordinator, log, statsVars>>

\* `await fut` inside Event.wait(). A future that handle_signal resolved
\* since it was appended is done: the await does not suspend, wait() returns
\* and run() goes on at line 495, a pending cancellation of the main task
\* still pending. Otherwise the main flow suspends, and a pending
\* cancellation of the main task cancels the future at once
EventWaitAwait ==
    /\ pc = "wait_await"
    /\ IF waiter = "done"
       THEN /\ pc' = "cancel_stats"
            /\ waiter' = "none"
       ELSE /\ pc' = "waiting"
            /\ waiter' = IF main_cancel THEN "cancelled" ELSE "pending"
    /\ UNCHANGED credVars
    /\ UNCHANGED main_cancel
    /\ UNCHANGED <<exc, exitStatus, handlers, signals, shutdown_event, running,
                   config_data, grid_config, exchange_adapter, reserve_manager,
                   reserve_monitor, coordinator, log, statsVars>>

\* the main flow, suspended in _shutdown_event.wait(), is resumed: with the
\* result of its future once Event.set() has resolved it, and run() goes on
\* at line 495; with CancelledError when the cancellation of the main task
\* has cancelled the future (lines 495-499 are skipped, `finally` runs
\* cleanup())
ShutdownObserved ==
    /\ pc = "waiting"
    /\ waiter \in {"done", "cancelled"}
    /\ waiter' = "none"
    /\ IF waiter = "cancelled"
       THEN /\ exc' = "CancelledError"
            /\ pc' = "cleanup"
            /\ main_cancel' = FALSE
       ELSE /\ pc' = "cancel_stats"
            /\ UNCHANGED <<exc, main_cancel>>
    /\ UNCHANGED credVars
    /\ UNCHANGED <<exitStatus, handlers, signals, shutdown_event, running,
                   config_data, grid_config, exchange_adapter, reserve_manager,
                   reserve_monitor, coordinator, log, statsVars>>

\* stats_task.cancel()
CancelStats ==
    /\ pc = "cancel_stats"
    /\ statsCancel' = (statsPc \notin {"done", "cancelled"})
    /\ pc' = "await_stats"
    /\ UNCHANGED credVars
    /\ UNCHANGED waiter
    /\ UNCHANGED main_cancel
    /\ UNCHANGED <<exc, exitStatus, handlers, signals, shutdown_event, running,
                   config_data, grid_config, exchange_adapter, reserve_manager,
                   reserve_monitor, coordinator, log, statsPc,
                   statsCycles, statsReads, statsLast>>

\* await stats_task: the main flow suspends until the cancelled task has
\* ended; `except asyncio.CancelledError: pass` swallows the task's
\* CancelledError and, with it, a pending cancellation of the main task
\* that is delivered at this await. Then the finally clause
AwaitStats ==
    /\ pc = "await_stats"
    /\ statsPc \in {"done", "cancelled"}
    /\ pc' = "cleanup"
    /\ main_cancel' = FALSE
    /\ UNCHANGED credVars
    /\ UNCHANGED waiter
    /\ UNCHANGED <<exc, exitStatus, handlers, signals, shutdown_event, running,
                   config_data, grid_config, exchange_adapter, reserve_manager,
                   reserve_monitor, coordinator, log, statsVars>>

-----------------------------------------------------------------------------
(* cleanup(), called from run()'s finally clause *)

\* cleanup() begins: self._running = False
CleanupStart ==
    /\ pc = "cleanup"
    /\ running' = FALSE
    /\ log' = Append(log, Call("cleanup", "ok"))
    /\ pc' = "cleanup_on_exit"
    /\ UNCHANGED credVars
    /\ UNCHANGED waiter
    /\ UNCHANGED main_cancel
    /\ UNCHANGED <<exc, exitStatus, handlers, signals, shutdown_event,
                   config_data, grid_config, exchange_adapter, reserve_manager,
                   reserve_monitor, coordinator, statsVars>>

\* an awaited call of cleanup() was cancelled: CancelledError is no
\* Exception, so it passes the handlers of cleanup() (lines 518 and 536),
\* leaves cleanup() and replaces what was in flight in run()
CleanupExc(r) == exc' = IF r = "cancelled" THEN "CancelledError" ELSE exc

\* mutant of CleanupOnExit: the hook is called without its own try/except,
\* so its exception leaves the outer try block
CleanupOnExitUnisolated ==
    /\ pc = "cleanup_on_exit"
    /\ IF coordinator # None
       THEN \E r \in AwaitOutcomes :
               /\ log' = Append(log, Call("coordinator.cleanup_on_exit", r))
               /\ Delivered(r)
               /\ CleanupExc(r)
               /\ pc' = IF r = "ok" THEN "cleanup_stop" ELSE "cleanup_end"
       ELSE /\ pc' = "cleanup_monitor"
            /\ UNCHANGED <<exc, log, main_cancel>>
    /\ UNCHANGED credVars
    /\ UNCHANGED waiter
    /\ UNCHANGED <<exitStatus, handlers, signals, shutdown_event, running,
                   config_data, grid_config, exchange_adapter, reserve_manager,
                   reserve_monitor, coordinator, statsVars>>

\* if self.coordinator: await self.coordinator.cleanup_on_exit(), inside its
\* own try/except Exception
CleanupOnExit ==
    /\ pc = "cleanup_on_exit"
    /\ IF coordinator # None
       THEN \E r \in AwaitOutcomes :
               /\ log' = Append(log, Call("coordinator.cleanup_on_exit", r))
               /\ Delivered(r)
               /\ CleanupExc(r)
               /\ pc' = IF r = "cancelled" THEN "cleanup_end" ELSE "cleanup_stop"
       ELSE /\ pc' = "cleanup_monitor"
            /\ UNCHANGED <<exc, log, main_cancel>>
    /\ UNCHANGED credVars
    /\ UNCHANGED waiter
    /\ UNCHANGED <<exitStatus, handlers, signals, shutdown_event, running,
                   config_data, grid_config, exchange_adapter, reserve_manager,
                   reserve_monitor, coordinator, statsVars>>

\* await self.coordinator.stop(); an exception leaves the outer try block
CoordinatorStop ==
    /\ pc = "cleanup_stop"
    /\ \E r \in AwaitOutcomes :
          /\ log' = Append(log, Call("coordinator.stop", r))
          /\ Delivered(r)
          /\ CleanupExc(r)
          /\ pc' = IF r = "ok" THEN "cleanup_monitor" ELSE "cleanup_end"
    /\ UNCHANGED credVars
    /\ UNCHANGED waiter
    /\ UNCHANGED <<exitStatus, handlers, signals, shutdown_event, running,
                   config_data, grid_config, exchange_adapter, reserve_manager,
                   reserve_monitor, coordinator, statsVars>>

\* if self.reserve_monitor: await self.reserve_monitor.stop()
MonitorStop ==
    /\ pc = "cleanup_monitor"
    /\ IF reserve_monitor # None
       THEN \E r \in AwaitOutcomes :
               /\ log' = Append(log, Call("reserve_monitor.stop", r))
               /\ Delivered(r)
               /\ CleanupExc(r)
               /\ pc' = IF r = "ok" THEN "cleanup_disconnect" ELSE "cleanup_end"
       ELSE /\ pc' = "cleanup_disconnect"
            /\ UNCHANGED <<exc, log, main_cancel>>
    /\ UNCHANGED credVars
    /\ UNCHANGED waiter
    /\ UNCHANGED <<exitStatus, handlers, signals, shutdown_event, running,
                   config_data, grid_config, exchange_adapter, reserve_manager,
                   reserve_monitor, coordinator, statsVars>>

\* mutant of Disconnect: disconnect() is called without testing the handle
DisconnectUnguarded ==
    /\ pc = "cleanup_disconnect"
    /\ \E r \in AwaitOutcomes :
          /\ log' = Append(log, Call("disconnect", r))
          /\ Delivered(r)
          /\ CleanupExc(r)
    /\ pc' = "cleanup_end"
    /\ UNCHANGED credVars
    /\ UNCHANGED waiter
    /\ UNCHANGED <<exitStatus, handlers, signals, shutdown_event, running,
                   config_data, grid_config, exchange_adapter, reserve_manager,
                   reserve_monitor, coordinator, statsVars>>

\* if self.exchange_adapter: await self.exchange_adapter.disconnect()
Disconnect ==
    /\ pc = "cleanup_disconnect"
    /\ IF exchange_adapter # None
       THEN \E r \in AwaitOutcomes :
               /\ log' = Append(log, Call("disconnect", r))
               /\ Delivered(r)
               /\ CleanupExc(r)
       ELSE UNCHANGED <<exc, log, main_cancel>>
    /\ pc' = "cleanup_end"
    /\ UNCHANGED credVars
    /\ UNCHANGED waiter
    /\ UNCHANGED <<exitStatus, handlers, signals, shutdown_event, running,
                   config_data, grid_config, exchange_adapter, reserve_manager,
                   reserve_monitor, coordinator, statsVars>>

\* the exit status of the process for what left run(): SystemExit(1) ends
\* it with status 1; an Exception is caught by the handler under
\* `if __name__ == "__main__"`, which prints the traceback and calls
\* sys.exit(1); a KeyboardInterrupt is caught and printed, and the script
\* ends normally, as it does when run() returns
ExitCode(e) == IF e \in {"SystemExit", "Exception"} THEN 1 ELSE 0

\* run() is left, after cleanup() has returned or was cancelled, or from
\* before its try block; what was in flight leaves main() and the process
\* ends. asyncio.run cancels a statistics task that is still alive then,
\* before it closes the loop
Exit ==
    /\ pc \in {"cleanup_end", "run_left"}
    /\ exitStatus' = ExitCode(exc)
    /\ pc' = "exited"
    /\ IF statsPc \in {"created", "sleeping"}
       THEN /\ statsCancel' = TRUE
            /\ statsPc' = "cancelled"
       ELSE UNCHANGED <<statsPc, statsCancel>>
    /\ UNCHANGED credVars
    /\ UNCHANGED waiter
    /\ UNCHANGED main_cancel
    /\ UNCHANGED <<exc, handlers, signals, shutdown_event, running,
                   config_data, grid_config, exchange_adapter, reserve_manager,
                   reserve_monitor, coordinator, log,
                   statsCycles, statsReads, statsLast>>

-----------------------------------------------------------------------------
(* print_statistics(): the statistics task *)

\* the main flow is not running and the event loop may run the task: the
\* main flow is suspended in _shutdown_event.wait(), in `await stats_task`
\* or in an awaited call of cleanup() when the task was not cancelled
\* first, or it has taken its last step (cleanup() has returned and run()
\* is left) and the loop runs what is ready once more before asyncio.run
\* cancels the remaining tasks
MainSuspended ==
    pc \in {"waiting", "await_stats", "driver", "cleanup_on_exit",
            "cleanup_stop", "cleanup_monitor", "cleanup_disconnect",
            "cleanup_end"}

\* mutant of SkipsCycle: the guard is missing
SkipsCycleNever(coord) == FALSE

\* the cycle's guard: `if not self.coordinator: continue`
SkipsCycle(coord) == coord = None

\* the loop condition: `while self._running`
LoopContinues(flag) == flag

\* the task's first step: the loop test, then suspension in asyncio.sleep
StatsStart ==
    /\ statsPc = "created"
    /\ MainSuspended
    /\ ~statsCancel
    /\ statsPc' = IF LoopContinues(running) THEN "sleeping" ELSE "done"
    /\ UNCHANGED credVars
    /\ UNCHANGED waiter
    /\ UNCHANGED main_cancel
    /\ UNCHANGED <<mainVars, signals, shutdown_event, running, coordinator,
                   statsCancel, statsCycles, statsReads, statsLast>>

\* the interval timer fires: the cycle runs to the next loop test without
\* suspending; get_statistics() or the formatting may raise, which the
\* `except Exception` of the loop body logs
StatsCycle ==
    /\ statsPc = "sleeping"
    /\ MainSuspended
    /\ ~statsCancel
    /\ statsCycles < MaxCycles
    /\ statsCycles' = statsCycles + 1
    /\ IF SkipsCycle(coordinator)
       THEN /\ statsReads' = statsReads
            /\ statsLast' = "skip"
       ELSE /\ statsReads' = statsReads + 1
            /\ \E r \in Outcomes :
                  statsLast' = IF r = "ok" THEN "report" ELSE "error"
    /\ statsPc' = IF LoopContinues(running) THEN "sleeping" ELSE "done"
    /\ UNCHANGED credVars
    /\ UNCHANGED waiter
    /\ UNCHANGED main_cancel
    /\ UNCHANGED <<mainVars, signals, shutdown_event, running, coordinator,
                   statsCancel>>

\* the cancelled task is resumed with CancelledError, which is no Exception:
\* it leaves the loop and ends the task
StatsCancelled ==
    /\ statsCancel
    /\ statsPc \in {"created", "sleeping"}
    /\ MainSuspended
    /\ statsPc' = "cancelled"
    /\ UNCHANGED credVars
    /\ UNCHANGED waiter
    /\ UNCHANGED main_cancel
    /\ UNCHANGED <<mainVars, signals, shutdown_event, running, coordinator,
                   statsCancel, statsCycles, statsReads, statsLast>>

-----------------------------------------------------------------------------
(* The daemon *)

Next ==
    \/ parse_arguments
    \/ EarlySignal
    \/ Main
    \/ MainRegisterSigint
    \/ SetupLogging
    \/ handle_signal
    \/ LoadConfig
    \/ CreateGridConfig
    \/ SpotShortCheck
    \/ CreateAdapter
    \/ Connect
    \/ BuildComponents
    \/ BuildReserve
    \/ BuildCoordinator
    \/ ReserveCheck
    \/ ReserveCheckDisconnect
    \/ CoordinatorStart
    \/ MonitorStart
    \/ StartMonitoring
    \/ EventWait
    \/ EventWaitAwait
    \/ ShutdownObserved
    \/ CancelStats
    \/ AwaitStats
    \/ CleanupStart
    \/ CleanupOnExit
    \/ CoordinatorStop
    \/ MonitorStop
    \/ Disconnect
    \/ Exit
    \/ StatsStart
    \/ StatsCycle
    \/ StatsCancelled

Spec == Init /\ [][Next]_vars

\* the steps of the main flow: main(), run() and cleanup()
MainFlow ==
    \/ parse_arguments
    \/ Main
    \/ MainRegisterSigint
    \/ SetupLogging
    \/ LoadConfig
    \/ CreateGridConfig
    \/ SpotShortCheck
    \/ CreateAdapter
    \/ Connect
    \/ BuildComponents
    \/ BuildReserve
    \/ BuildCoordinator
    \/ ReserveCheck
    \/ ReserveCheckDisconnect
    \/ CoordinatorStart
    \/ MonitorStart
    \/ StartMonitoring
    \/ EventWait
    \/ EventWaitAwait
    \/ ShutdownObserved
    \/ CancelStats
    \/ AwaitStats
    \/ CleanupStart
    \/ CleanupOnExit
    \/ CoordinatorStop
    \/ MonitorStop
    \/ Disconnect
    \/ Exit

\* the event loop runs whatever is ready: every awaited call of the main
\* flow returns or raises, a main flow whose event is set is resumed, and a
\* cancelled task is resumed with its CancelledError. Signals and interval
\* timers are not required to occur.
Fairness == WF_vars(MainFlow) /\ WF_vars(StatsCancelled)

SpecLive == Spec /\ Fairness

-----------------------------------------------------------------------------
(* print_statistics() driven directly on a constructed runner: the caller   *)
(* sets _running, launches the task, and may assign the coordinator, clear  *)
(* the flag or cancel the task at any suspension point of the task.         *)

InitStats ==
    /\ pc = "driver"
    /\ exc = "none"
    /\ exitStatus = NotExited
    /\ handlers = {}
    /\ signals = 0
    /\ shutdown_event = FALSE
    /\ running = TRUE
    /\ config_data = None
    /\ grid_config = None
    /\ exchange_adapter = None
    /\ reserve_manager = None
    /\ reserve_monitor = None
    /\ coordinator \in {None, Obj}
    /\ log = <<>>
    /\ statsPc = "created"
    /\ statsCancel = FALSE
    /\ statsCycles = 0
    /\ statsReads = 0
    /\ statsLast = "none"
    /\ environ = NoEnviron
    /\ exchange_file = NoFile
    /\ main_cancel = FALSE
    /\ waiter = "none"

\* self.coordinator = GridCoordinator(...)
DriverAssignCoordinator ==
    /\ pc = "driver"
    /\ coordinator = None
    /\ coordinator' = Obj
    /\ UNCHANGED credVars
    /\ UNCHANGED waiter
    /\ UNCHANGED main_cancel
    /\ UNCHANGED <<mainVars, signals, shutdown_event, running, statsVars>>

\* self._running = False
DriverClearRunning ==
    /\ pc = "driver"
    /\ running
    /\ running' = FALSE
    /\ UNCHANGED credVars
    /\ UNCHANGED waiter
    /\ UNCHANGED main_cancel
    /\ UNCHANGED <<mainVars, signals, shutdown_event, coordinator, statsVars>>

\* stats_task.cancel()
DriverCancel ==
    /\ pc = "driver"
    /\ ~statsCancel
    /\ statsPc \in {"created", "sleeping"}
    /\ statsCancel' = TRUE
    /\ UNCHANGED credVars
    /\ UNCHANGED waiter
    /\ UNCHANGED main_cancel
    /\ UNCHANGED <<mainVars, signals, shutdown_event, running, coordinator,
                   statsPc, statsCycles, statsReads, statsLast>>

NextStats ==
    \/ DriverAssignCoordinator
    \/ DriverClearRunning
    \/ DriverCancel
    \/ StatsStart
    \/ StatsCycle
    \/ StatsCancelled

SpecStats == InitStats /\ [][NextStats]_vars

-----------------------------------------------------------------------------
(* create_grid_config applied to every document *)

InitTranslator ==
    /\ pc = "translate"
    /\ exc = "none"
    /\ exitStatus = NotExited
    /\ handlers = {}
    /\ signals = 0
    /\ shutdown_event = FALSE
    /\ running = FALSE
    /\ config_data \in AllDocuments
    /\ grid_config = None
    /\ exchange_adapter = None
    /\ reserve_manager = None
    /\ reserve_monitor = None
    /\ coordinator = None
    /\ log = <<>>
    /\ statsPc = "none"
    /\ statsCancel = FALSE
    /\ statsCycles = 0
    /\ statsReads = 0
    /\ statsLast = "none"
    /\ environ = NoEnviron
    /\ exchange_file = NoFile
    /\ main_cancel = FALSE
    /\ waiter = "none"

\* grid_config = self.create_grid_config(config_data); a raised error is
\* kept as the result
Translate ==
    /\ pc = "translate"
    /\ grid_config' = create_grid_config(config_data)
    /\ pc' = "translated"
    /\ UNCHANGED credVars
    /\ UNCHANGED waiter
    /\ UNCHANGED main_cancel
    /\ UNCHANGED <<exc, exitStatus, handlers, signals, shutdown_event, running,
                   config_data, exchange_adapter, reserve_manager,
                   reserve_monitor, coordinator, log, statsVars>>

SpecTranslator == InitTranslator /\ [][Translate]_vars

-----------------------------------------------------------------------------
(* create_exchange_adapter up to the ExchangeConfig, applied to symbols,    *)
(* exchanges, environments and per-exchange files                           *)

ResolverExchanges ==
    Exchanges \cup
    { <<"H","Y","P","E","R","L","I","Q","U","I","D">>,
      BACKPACK,
      <<"L","i","g","h","t","e","r">> }

ResolverSymbols ==
    Symbols \cup
    { <<"B","T","C",":","P","E","R","P">>,
      <<"b","t","c",":","u","s","d","c">>,
      <<"E","T","H",":","S","P","O","T",":","U","S","D","C">>,
      <<"S","P","O","T","_","P","E","R","P">>,
      <<"S","O","L","P","E","R","P">>,
      <<"S","O","L","S","P","O","T">>,
      <<"S","O","L">>,
      <<"E","T","H","_","U","S","D","C">> }

\* a complete long-grid document for the given exchange and symbol
DocumentFor(exchange, symbol) ==
    [exchange |-> exchange, symbol |-> symbol, grid_type |-> "long",
     has_lower_price |-> TRUE, has_upper_price |-> TRUE,
     has_follow_count |-> FALSE, spot_reserve |-> "absent"]

\* the value a credential variable holds when it is set and not empty
EnvValue(f) ==
    CASE f = "API_KEY" -> "env_api_key"
      [] f = "API_SECRET" -> "env_api_secret"
      [] f = "WALLET_ADDRESS" -> "env_wallet_address"

\* each variable unset, set to the empty string, or set to its value
Environs ==
    {e \in [EnvFields -> {NONE, "", "env_api_key", "env_api_secret",
                          "env_wallet_address"}] :
        \A f \in EnvFields : e[f] \in {NONE, "", EnvValue(f)}}

\* the value the file gives for a key of its authentication block
FileValue(k) ==
    CASE k = "api_key" -> "file_api_key"
      [] k = "private_key" -> "file_private_key"
      [] k = "api_secret" -> "file_api_secret"
      [] k = "wallet_address" -> "file_wallet_address"
      [] k = "api_key_private_key" -> "file_api_key_private_key"

\* no file, a file that cannot be read, or a file with any set of the keys
ExchangeFiles ==
    { NoFile,
      [exists |-> TRUE, readable |-> FALSE, auth |-> [k \in {} |-> ""]] }
    \cup { [exists |-> TRUE, readable |-> TRUE,
            auth |-> [k \in S |-> FileValue(k)]] : S \in SUBSET AuthKeys }

CredentialExchanges == {HYPERLIQUID, <<"B","a","c","k","p","a","c","k">>, LIGHTER}

InitExchangeConfig ==
    /\ pc = "exchange_config"
    /\ exc = "none"
    /\ exitStatus = NotExited
    /\ handlers = {}
    /\ signals = 0
    /\ shutdown_event = FALSE
    /\ running = FALSE
    /\ \/ /\ \E x \in ResolverExchanges, y \in ResolverSymbols :
                config_data = DocumentFor(x, y)
          /\ environ = NoEnviron
          /\ exchange_file = NoFile
       \/ /\ \E x \in CredentialExchanges :
                config_data = DocumentFor(x, <<"B","T","C">>)
          /\ environ \in Environs
          /\ exchange_file \in ExchangeFiles
    /\ grid_config = None
    /\ exchange_adapter = None
    /\ reserve_manager = None
    /\ reserve_monitor = None
    /\ coordinator = None
    /\ log = <<>>
    /\ statsPc = "none"
    /\ statsCancel = FALSE
    /\ statsCycles = 0
    /\ statsReads = 0
    /\ statsLast = "none"
    /\ main_cancel = FALSE
    /\ waiter = "none"

\* the ExchangeConfig the adapter is created with
BuildExchangeConfig ==
    /\ pc = "exchange_config"
    /\ exchange_adapter' =
          create_exchange_config(config_data, environ, exchange_file)
    /\ pc' = "configured"
    /\ UNCHANGED credVars
    /\ UNCHANGED waiter
    /\ UNCHANGED main_cancel
    /\ UNCHANGED <<exc, exitStatus, handlers, signals, shutdown_event, running,
                   config_data, grid_config, reserve_manager,
                   reserve_monitor, coordinator, log, statsVars>>

SpecExchangeConfig == InitExchangeConfig /\ [][BuildExchangeConfig]_vars

-----------------------------------------------------------------------------
(* Properties *)

\* cleanup() has run to its end
CleanupDone == pc \in {"cleanup_end", "exited"}

\* a call of `second` was made after a call of `first` that raised
CalledAfterRaise(first, second) ==
    \E i, j \in DOMAIN log :
        /\ i < j
        /\ log[i].op = first
        /\ log[i].res = "raise"
        /\ log[j].op = second

\* C1: when cleanup has run and the reserve monitor's stop() raised in it,
\* disconnect() was still called afterwards on the existing connection handle.
C1_DisconnectAfterMonitorStopRaised ==
    (CleanupDone /\ Raised("reserve_monitor.stop") /\ exchange_adapter # None)
        => CalledAfterRaise("reserve_monitor.stop", "disconnect")

\* C2: a run that obtained a connection handle has made exactly one
\* disconnect() call on it when the process has ended.
C2_ExactlyOneDisconnect ==
    (pc = "exited" /\ exchange_adapter # None) => Count("disconnect") = 1

\* C3: when cleanup has run and the coordinator's stop() raised in it, the
\* reserve monitor's stop() (if a monitor exists) and disconnect() (if a
\* handle exists) were still called afterwards.
C3_TeardownAfterCoordinatorStopRaised ==
    (CleanupDone /\ Raised("coordinator.stop"))
        => /\ reserve_monitor # None
                => CalledAfterRaise("coordinator.stop", "reserve_monitor.stop")
           /\ exchange_adapter # None
                => CalledAfterRaise("coordinator.stop", "disconnect")

\* C4: when the coordinator's cleanup_on_exit() hook raised, cleanup() goes
\* on to the coordinator's stop(): stop() is the next call, and once cleanup
\* is past that step it has been called after the hook.
C4_StopAfterCleanupOnExitRaised ==
    Raised("coordinator.cleanup_on_exit")
        => \/ pc = "cleanup_stop"
           \/ CalledAfterRaise("coordinator.cleanup_on_exit", "coordinator.stop")

\* C4 witness: a finished run in which the hook raised and stop() was called
C4_Witness ==
    /\ pc = "exited"
    /\ Raised("coordinator.cleanup_on_exit")
    /\ Logged("coordinator.stop")

\* C5: a configuration whose market type detect_market_type resolves to SPOT
\* and whose grid type is a short type creates no adapter, attempts no
\* connect(), and ends the process with status 1.
C5_SpotShortRejected ==
    (/\ grid_config # None
     /\ detect_market_type(grid_config.symbol, grid_config.exchange) = "SPOT"
     /\ grid_config.grid_type \in ShortTypes)
        => /\ ~Logged("create_adapter")
           /\ ~Logged("connect")
           /\ pc = "exited" => exitStatus = 1

\* the calls of the startup sequence
StartupOps ==
    {"create_adapter", "connect", "components", "SpotReserveManager",
     "ReserveMonitor", "GridCoordinator", "check_spot_reserve",
     "coordinator.start", "reserve_monitor.start"}

\* the component constructions of steps 3 and 4
ConstructionOps ==
    {"components", "SpotReserveManager", "ReserveMonitor", "GridCoordinator"}

\* the call did not return normally: it raised, was cancelled, or (the
\* reserve check) reported failure
StartupCallFailed(op) ==
    \E i \in DOMAIN log : log[i].op = op /\ log[i].res # "ok"

\* C6: startup is fail-fast. No startup call follows a startup call that
\* failed; a run whose configuration loading, translation or validation
\* failed has created no adapter and called no connect(); a run whose
\* adapter creation or connect() failed (raised or was cancelled) has
\* constructed no component; and a run in which one of these steps failed
\* never sets the running flag or launches the statistics task.
C6_FailFast ==
    /\ \A i, j \in DOMAIN log :
          (i < j /\ log[i].op \in StartupOps /\ log[i].res # "ok")
              => log[j].op \notin StartupOps
    /\ (exc # "none" /\ (\/ config_data = None
                         \/ grid_config = None
                         \/ SpotShortRejected(grid_config)))
          => \A i \in DOMAIN log : log[i].op \notin StartupOps
    /\ (StartupCallFailed("create_adapter") \/ StartupCallFailed("connect"))
          => /\ \A i \in DOMAIN log : log[i].op \notin ConstructionOps
             /\ exchange_adapter = None
             /\ reserve_manager = None
             /\ reserve_monitor = None
             /\ coordinator = None
    /\ (\/ \E op \in StartupOps : StartupCallFailed(op)
        \/ exc # "none" /\ (\/ config_data = None
                            \/ grid_config = None
                            \/ SpotShortRejected(grid_config)))
          => (~running /\ statsPc = "none")

\* C6 witness: a finished run in which connect() failed
C6_Witness ==
    /\ pc = "exited"
    /\ Raised("connect")
    /\ Logged("cleanup")

\* the calls cleanup() makes on the collaborators
TeardownOps ==
    {"coordinator.cleanup_on_exit", "coordinator.stop",
     "reserve_monitor.stop", "disconnect"}

\* C7: however many shutdown signals are delivered, and whenever, at most
\* one cleanup sequence is started, a finished run that received two or
\* more signals has executed exactly one, and in a run shut down by the
\* signal each teardown call is made at most once.
C7_OneCleanup ==
    /\ Count("cleanup") <= 1
    /\ (pc = "exited" /\ signals >= 2) => Count("cleanup") = 1
    /\ statsPc # "none" => \A op \in TeardownOps : Count(op) <= 1

\* the pre-start reserve check returned False
ReserveCheckFailed ==
    \E i \in DOMAIN log :
        log[i].op = "check_spot_reserve" /\ log[i].res = "fail"

\* C8: after a failed pre-start reserve check no further startup step runs
\* (no coordinator.start(), no monitor start(), running flag never set, no
\* statistics task), the handle is disconnected and the process ends with a
\* non-zero status.
C8_ReserveCheckFailureIsFatal ==
    ReserveCheckFailed
        => /\ ~Logged("coordinator.start")
           /\ ~Logged("reserve_monitor.start")
           /\ ~running
           /\ statsPc = "none"
           /\ pc = "exited" => (Logged("disconnect") /\ exitStatus # 0)

\* C9: the exit status is 0 exactly when the run reached Running and was
\* ended by a shutdown signal; it is 1 for a rejected short grid on a spot
\* market and for a failed reserve check; every other fatal startup error
\* ends the process non-zero after cleanup has run. (The status 1 of a
\* missing configuration file is the outcome Main itself draws.)
C9_ExitStatus ==
    pc = "exited"
        => /\ exitStatus = 0 <=> (statsPc # "none" /\ shutdown_event)
           /\ (grid_config # None /\ SpotShortRejected(grid_config))
                 => exitStatus = 1
           /\ ReserveCheckFailed => exitStatus = 1
           /\ exc = "Exception" => (Count("cleanup") = 1 /\ exitStatus # 0)

\* C10: the statistics task reads a snapshot only while a coordinator
\* exists; a cycle that finds no coordinator reads nothing and returns to
\* the loop test, where it waits again as long as the running flag is set.
C10_NoReadWithoutCoordinator ==
    [][/\ statsReads' # statsReads => coordinator # None
       /\ (statsCycles' # statsCycles /\ coordinator = None)
             => /\ statsReads' = statsReads
                /\ statsLast' = "skip"
                /\ running => statsPc' = "sleeping"]_vars

\* C10 witness: a cycle ran without a coordinator and the task waits again
C10_Witness ==
    /\ coordinator = None
    /\ statsCycles > 0
    /\ statsReads = 0
    /\ statsLast = "skip"
    /\ statsPc = "sleeping"

-----------------------------------------------------------------------------
(* Market type, translation and credentials *)

\* the market type the resolver table gives: hyperliquid by tag (:SPOT is
\* spot, :USDC or :PERP is perpetual, untagged is spot), backpack by marker
\* (PERP is perpetual, else SPOT is spot, else perpetual), any other
\* exchange perpetual
TableMarketType(symbol, exchange) ==
    LET sym == Upper(symbol)
        ex == Lower(exchange)
    IN  CASE ex = HYPERLIQUID ->
               IF Contains(TAG_SPOT, sym) THEN "SPOT"
               ELSE IF Contains(TAG_USDC, sym) \/ Contains(TAG_PERP, sym)
               THEN "PERPETUAL"
               ELSE "SPOT"
          [] ex = BACKPACK ->
               IF Contains(W_PERP, sym) THEN "PERPETUAL"
               ELSE IF Contains(W_SPOT, sym) THEN "SPOT"
               ELSE "PERPETUAL"
          [] OTHER -> "PERPETUAL"

\* C11: the resolver gives every (symbol, exchange) pair exactly one of
\* SPOT and PERPETUAL, and it is the one of the table: a hyperliquid symbol
\* tagged :SPOT is spot, one tagged :USDC or :PERP is perpetual, an untagged
\* one is spot; a backpack symbol containing PERP is perpetual, one
\* containing SPOT (and not PERP) is spot, any other perpetual; every other
\* exchange is perpetual.
C11_MarketTypeTable ==
    pc = "configured"
        => /\ exchange_adapter.exchange_type \in {"SPOT", "PERPETUAL"}
           /\ exchange_adapter.exchange_type
                 = TableMarketType(config_data.symbol, config_data.exchange)
           /\ (Lower(config_data.exchange) = HYPERLIQUID
                 /\ config_data.symbol = <<"B","T","C",":","U","S","D","C">>)
                 => exchange_adapter.exchange_type = "PERPETUAL"
           /\ (Lower(config_data.exchange) = HYPERLIQUID
                 /\ config_data.symbol = <<"B","T","C",":","S","P","O","T">>)
                 => exchange_adapter.exchange_type = "SPOT"
           /\ (Lower(config_data.exchange) = BACKPACK
                 /\ config_data.symbol = <<"S","O","L","_","P","E","R","P">>)
                 => exchange_adapter.exchange_type = "PERPETUAL"
           /\ Lower(config_data.exchange) \notin {HYPERLIQUID, BACKPACK}
                 => exchange_adapter.exchange_type = "PERPETUAL"

\* C11 witness: an untagged hyperliquid symbol was resolved to spot
C11_Witness ==
    /\ pc = "configured"
    /\ Lower(config_data.exchange) = HYPERLIQUID
    /\ config_data.symbol = <<"S","O","L">>
    /\ exchange_adapter.exchange_type = "SPOT"

\* C12: a translated grid configuration of a follow type carries
\* follow_grid_count and no price range, one of any other type carries both
\* lower_price and upper_price; a document with an unrecognized grid type
\* tag, or without the field its type requires, is not translated.
C12_RequiredFields ==
    pc = "translated"
        => /\ config_data.grid_type \notin GridTypeValues => ~grid_config.ok
           /\ grid_config.ok
                => /\ grid_config.grid_type = config_data.grid_type
                   /\ IF grid_config.grid_type \in {"follow_long", "follow_short"}
                      THEN /\ "follow_grid_count" \in grid_config.fields
                           /\ "lower_price" \notin grid_config.fields
                           /\ "upper_price" \notin grid_config.fields
                           /\ config_data.has_follow_count
                      ELSE /\ {"lower_price", "upper_price"}
                                 \subseteq grid_config.fields
                           /\ config_data.has_lower_price
                           /\ config_data.has_upper_price

\* C12 witness: a follow document that also had a price range was
\* translated without it
C12_Witness ==
    /\ pc = "translated"
    /\ grid_config.ok
    /\ grid_config.grid_type = "follow_short"
    /\ config_data.has_lower_price
    /\ config_data.has_upper_price
    /\ "lower_price" \notin grid_config.fields

\* the key of the file's authentication block a credential field is read
\* from, first choice first
FileKeysOf(exchange, field) ==
    LET ex == Lower(exchange)
    IN  CASE ex = HYPERLIQUID ->
               IF field = "WALLET_ADDRESS" THEN <<"wallet_address">>
               ELSE <<"private_key">>
          [] ex = LIGHTER ->
               IF field = "API_KEY" THEN <<"api_key_private_key">> ELSE <<>>
          [] OTHER ->
               CASE field = "API_KEY" -> <<"api_key">>
                 [] field = "API_SECRET" -> <<"private_key", "api_secret">>
                 [] field = "WALLET_ADDRESS" -> <<"wallet_address">>

\* the first non-empty value the file gives for the field, NONE without one
RECURSIVE FirstOf(_, _)
FirstOf(keys, auth) ==
    IF keys = <<>> THEN NONE
    ELSE IF Truthy(DictGet(auth, Head(keys), NONE))
    THEN auth[Head(keys)]
    ELSE FirstOf(Tail(keys), auth)

\* per-field precedence: environment, then file, then empty
PrecedenceValue(exchange, field, env, file) ==
    IF Truthy(env[field]) THEN env[field]
    ELSE IF file.exists /\ file.readable
    THEN FirstOf(FileKeysOf(exchange, field), file.auth)
    ELSE NONE

\* the field of the configuration the adapter is created with
ConfigField(field) ==
    CASE field = "API_KEY" -> exchange_adapter.api_key
      [] field = "API_SECRET" -> exchange_adapter.api_secret
      [] field = "WALLET_ADDRESS" -> exchange_adapter.wallet_address

\* C13: every credential field of the adapter's configuration is the
\* environment variable's value when that is set, otherwise the value of
\* the per-exchange file when the file is present and supplies the field,
\* otherwise empty.
C13_CredentialPrecedence ==
    pc = "configured"
        => \A f \in EnvFields :
              LET want == PrecedenceValue(config_data.exchange, f,
                                          environ, exchange_file)
              IN  IF Truthy(want) THEN ConfigField(f) = want
                  ELSE ~Truthy(ConfigField(f))

-----------------------------------------------------------------------------
(* Shutdown ordering, the statistics task and the reserve pair *)

\* the call was made and returned
Returned(op) == \E i \in DOMAIN log : log[i].op = op /\ log[i].res = "ok"

\* the statistics task has ended
StatsEnded == statsPc \in {"cancelled", "done"}

\* cleanup_on_exit() or stop() of the coordinator has been invoked
CoordinatorTeardownBegun ==
    Logged("coordinator.cleanup_on_exit") \/ Logged("coordinator.stop")

\* C14: in a run that launched the statistics task, the task has ended by
\* the time cleanup() runs, so before coordinator.cleanup_on_exit() and
\* coordinator.stop(); once coordinator teardown has begun the task runs no
\* cycle and reads no snapshot.
C14_StatsEndedBeforeTeardown ==
    /\ []((statsPc # "none" /\ (pc \in CleanupPcs \/ CoordinatorTeardownBegun))
             => StatsEnded)
    /\ [][CoordinatorTeardownBegun
             => (statsReads' = statsReads /\ statsCycles' = statsCycles)]_vars

\* C15: the running flag is already false when the statistics
\* task is cancelled.
C15_FlagClearedBeforeCancel ==
    (statsCancel \/ statsPc = "cancelled") => ~running

\* a teardown action has been performed
TeardownBegun ==
    \/ Logged("cleanup")
    \/ statsCancel
    \/ statsPc # "none" /\ ~running
    \/ \E op \in TeardownOps : Logged(op)

\* the main flow has returned from its wait on the shutdown event
SignalObserved ==
    /\ shutdown_event
    /\ statsPc # "none"
    /\ pc \notin {"wait_enter", "wait_await", "waiting"}

\* a startup step has failed: an exception or sys.exit is in flight, or a
\* startup call did not return normally
FatalStartupError ==
    \/ exc \in {"Exception", "SystemExit"}
    \/ \E op \in StartupOps : StartupCallFailed(op)

\* C16: no teardown action (flag cleared, task cancelled, a teardown call
\* made) happens before the main flow has observed the shutdown signal or a
\* startup step has failed; while the run waits in Running with the signal
\* unset, no teardown action has happened and no step of the main flow
\* happens.
C16_NoEarlyTeardown ==
    /\ [](TeardownBegun => (SignalObserved \/ FatalStartupError))
    /\ []((pc = "waiting" /\ ~shutdown_event) => (running /\ ~TeardownBegun))
    /\ [][(pc = "waiting" /\ ~shutdown_event)
             => /\ pc' = "waiting"
                /\ log' = log
                /\ running' = running
                /\ statsCancel' = statsCancel]_vars

\* C17: a cycle that fails leaves the statistics task alive, waiting for
\* the next interval while the running flag is set; the task ends only by
\* cancellation, and a cancelled task runs no further cycle: its next step
\* is its end.
C17_CycleFailureNotFatal ==
    /\ [](statsPc # "done")
    /\ [][/\ (statsCycles' # statsCycles /\ statsLast' = "error")
                => (~StatsEnded' /\ (running => statsPc' = "sleeping"))
          /\ (~StatsEnded /\ StatsEnded')
                => (statsCancel /\ statsPc' = "cancelled")
          /\ statsCancel
                => /\ statsCycles' = statsCycles
                   /\ statsReads' = statsReads
                   /\ statsPc' # statsPc => statsPc' = "cancelled"]_vars

\* C18: the running flag is set and the statistics task exists only after
\* coordinator.start() returned and, with a reserve monitor, after its
\* start() returned; running implies a connection handle and a started
\* coordinator; after a failed coordinator.start() or monitor start() the
\* flag is not set and there is no task.
C18_RunningAfterStart ==
    /\ (running \/ statsPc # "none")
          => /\ Returned("coordinator.start")
             /\ reserve_monitor # None => Returned("reserve_monitor.start")
    /\ running => (exchange_adapter # None /\ coordinator # None)
    /\ (\/ StartupCallFailed("coordinator.start")
        \/ StartupCallFailed("reserve_monitor.start"))
          => (~running /\ statsPc = "none")

\* C18 witness: Running with a reserve monitor whose start() returned
C18_Witness ==
    /\ running
    /\ statsPc = "sleeping"
    /\ reserve_monitor # None
    /\ Returned("coordinator.start")
    /\ Returned("reserve_monitor.start")

\* the market is spot and the spot_reserve block is present and enabled
SpotReserveEnabled ==
    /\ exchange_adapter # None
    /\ grid_config # None
    /\ exchange_adapter.exchange_type = "SPOT"
    /\ grid_config.spot_reserve = "enabled"

\* C19 as stated: the reserve manager and monitor are both constructed or
\* both absent in every state, constructed exactly when the market is spot
\* and the reserve block enabled, and the pre-start check is invoked only
\* with a manager.
C19_BothOrNeither ==
    /\ (reserve_manager = None) <=> (reserve_monitor = None)
    /\ reserve_manager # None => SpotReserveEnabled
    /\ Logged("GridCoordinator") => (SpotReserveEnabled => reserve_manager # None)
    /\ Logged("check_spot_reserve") => reserve_manager # None

\* C19, amended: a reserve monitor never exists without a reserve manager;
\* a manager without a monitor exists only after the monitor's constructor
\* raised, and then startup is abandoned before the coordinator is built;
\* once the construction step is complete both exist or both are absent,
\* and they exist exactly when the market is spot and the reserve block is
\* enabled; the pre-start check is invoked only when both exist.
C19_ReservePair ==
    /\ reserve_monitor # None => reserve_manager # None
    /\ (reserve_manager # None /\ reserve_monitor = None)
          => /\ Raised("ReserveMonitor")
             /\ exc # "none"
             /\ ~Logged("GridCoordinator")
    /\ reserve_manager # None => SpotReserveEnabled
    /\ Logged("GridCoordinator")
          => /\ (reserve_manager = None) <=> (reserve_monitor = None)
             /\ reserve_manager # None <=> SpotReserveEnabled
    /\ Logged("check_spot_reserve")
          => (reserve_manager # None /\ reserve_monitor # None)

\* C19 witness: manager and monitor were built and the pre-start check ran
C19_Witness ==
    /\ reserve_manager # None
    /\ reserve_monitor # None
    /\ SpotReserveEnabled
    /\ Returned("check_spot_reserve")

\* the position of a teardown call in cleanup()
TeardownRank(op) ==
    CASE op = "coordinator.cleanup_on_exit" -> 1
      [] op = "coordinator.stop" -> 2
      [] op = "reserve_monitor.stop" -> 3
      [] op = "disconnect" -> 4
      [] OTHER -> 0

\* the calls made since cleanup() began
CleanupCalls ==
    LET c == CHOOSE i \in DOMAIN log : log[i].op = "cleanup"
    IN  SubSeq(log, c + 1, Len(log))

\* C20: the calls of one cleanup() are teardown calls in the order
\* cleanup_on_exit(), stop(), reserve_monitor.stop(), disconnect(), each at
\* most once and only on a collaborator that exists; with a coordinator,
\* disconnect() is preceded by coordinator.stop().
C20_TeardownOrder ==
    Logged("cleanup")
        => LET calls == CleanupCalls
           IN  /\ \A i \in DOMAIN calls : calls[i].op \in TeardownOps
               /\ \A i, j \in DOMAIN calls :
                     i < j => TeardownRank(calls[i].op) < TeardownRank(calls[j].op)
               /\ \A i \in DOMAIN calls :
                     /\ TeardownRank(calls[i].op) \in {1, 2} => coordinator # None
                     /\ TeardownRank(calls[i].op) = 3 => reserve_monitor # None
                     /\ TeardownRank(calls[i].op) = 4 => exchange_adapter # None
               /\ \A j \in DOMAIN calls :
                     (calls[j].op = "disconnect" /\ coordinator # None)
                        => \E i \in DOMAIN calls :
                              i < j /\ calls[i].op = "coordinator.stop"

\* C20 witness: a cleanup that made all four calls
C20_Witness ==
    /\ pc = "cleanup_end"
    /\ Len(CleanupCalls) = 4
    /\ CleanupCalls[4].op = "disconnect"

-----------------------------------------------------------------------------
(* The running flag and the statistics loop *)

\* C21: once the running flag is false the statistics task reads
\* no snapshot and begins no interval wait, also when the flag was cleared
\* while the task was suspended on its timer.
C21_NoCycleAfterFlagCleared ==
    [][~running
          => /\ statsReads' = statsReads
             /\ statsPc' = "sleeping" => statsPc = "sleeping"]_vars

-----------------------------------------------------------------------------
(* Delivery of the shutdown signal *)

\* C22: a shutdown signal is never lost. Once a signal has been delivered
\* to the registered handler, in a startup step or later, the run executes
\* cleanup() and the process ends, whether or not another signal follows,
\* as long as every awaited call returns or raises.
C22_SignalNeverLost ==
    (signals > 0) ~> (pc = "exited" /\ Logged("cleanup"))

-----------------------------------------------------------------------------
(* Teardown of collaborators that were never started *)

\* every call of `second` comes after a call of `first`
CalledOnlyAfter(second, first) ==
    \A j \in DOMAIN log :
        log[j].op = second
            => \E i \in DOMAIN log : i < j /\ log[i].op = first

\* C23: cleanup() tears down only what was started: cleanup_on_exit() and
\* stop() of the coordinator are called only after coordinator.start() was
\* called, and reserve_monitor.stop() only after reserve_monitor.start()
\* was called, however startup ended.
C23_TeardownOnlyOnStarted ==
    /\ CalledOnlyAfter("coordinator.cleanup_on_exit", "coordinator.start")
    /\ CalledOnlyAfter("coordinator.stop", "coordinator.start")
    /\ CalledOnlyAfter("reserve_monitor.stop", "reserve_monitor.start")

====
